---- MODULE Spec2Model ----
(***************************************************************************)
(* Model of the pattern-matching and guess-ranking engine of the Wordle    *)
(* helpers: the feedback encoder, the pattern rows, the candidate filters, *)
(* the depth-limited scorer, the ranking and the phase selection.          *)
(*                                                                         *)
(* Python lists are modelled as sequences, so position p of the source is  *)
(* index p + 1 here. Letters are one-character strings.                    *)
(***************************************************************************)
EXTENDS Integers, Sequences, FiniteSets, TLC

(* ----------------------------- bounds ---------------------------------- *)

\* number of distinct upper-case letters the encoder's inputs are drawn from
NumLetters == 4

\* number of words in the word list
NumWords == 5

\* longest history of played guesses given to the candidate filter
MaxHist == 2

\* longest history of played guesses before a ranking
MaxRankHist == 1

\* the sample size given to the scorer and to the ranking
SampleK == 2

\* a top_n smaller than the pool
TopFew == 3

\* largest pool size given to the phase selection
MaxSize == 1100

(* ------------------------- program constants --------------------------- *)

\* word length (range(5), [0]*5)
L == 5

\* recommend: top_n: int = 20
DefaultTopN == 20

Alphabet == <<"A", "B", "C", "D", "E", "F">>

Letters == {Alphabet[i] : i \in 1..NumLetters}

Pos == 1..L

\* every word of length L over Letters
AllWords == [Pos -> Letters]

\* rank of a letter in the alphabet
Rank(c) == CHOOSE i \in 1..Len(Alphabet) : Alphabet[i] = c

\* the words whose letters first occur in alphabetical order: the encoder
\* compares letters only for equality, so every (guess, sol) pair is a
\* renaming of a pair whose guess is one of these
FirstUseWords ==
    {w \in AllWords :
        \A i \in Pos : \A k \in 1..(Rank(w[i]) - 1) : \E j \in 1..(i - 1) : Rank(w[j]) = k}

None == [none |-> TRUE]

(* ------------------------------ helpers -------------------------------- *)

Min(S) == CHOOSE x \in S : \A y \in S : x <= y

\* str.count / Counter(word)[letter]
Count(x, w) == Cardinality({i \in DOMAIN w : w[i] = x})

\* letter in word
In(x, w) == \E i \in DOMAIN w : w[i] = x

Range(s) == {s[i] : i \in DOMAIN s}

RECURSIVE SumSeq(_)
SumSeq(s) == IF s = <<>> THEN 0 ELSE Head(s) + SumSeq(Tail(s))

(* ------------------------- 2. pattern encoder -------------------------- *)

\* POW3 = [3**i for i in range(5)]
POW3 == [i \in Pos |-> 3 ^ (i - 1)]

\* a first pass whose loop stops one position early
FirstPassShort(g, s) ==
    [res   |-> [i \in Pos |-> IF i < L /\ g[i] = s[i] THEN 2 ELSE 0],
     taken |-> [i \in Pos |-> i < L /\ g[i] = s[i]]]

\* first pass - greens: res[i] = 2 and taken[i] = True where guess and sol agree
FirstPass(g, s) ==
    [res   |-> [i \in Pos |-> IF g[i] = s[i] THEN 2 ELSE 0],
     taken |-> [i \in Pos |-> g[i] = s[i]]]

\* an inner loop that forgets the consumption bookkeeping
FindFreeIgnoringTaken(c, s, taken) ==
    LET js == {j \in Pos : c = s[j]}
    IN  IF js = {} THEN 0 ELSE Min(js)

\* inner loop of the second pass: the first position j of sol that is not
\* taken and holds the letter c; 0 when the loop ends without a break
FindFree(c, s, taken) ==
    LET js == {j \in Pos : ~taken[j] /\ c = s[j]}
    IN  IF js = {} THEN 0 ELSE Min(js)

\* second pass - yellows, positions i..L still to visit
RECURSIVE SecondPass(_, _, _, _, _)
SecondPass(g, s, res, taken, i) ==
    IF i > L THEN res
    ELSE IF res[i] # 0 THEN SecondPass(g, s, res, taken, i + 1)
    ELSE LET j == FindFree(g[i], s, taken)
         IN  IF j = 0 THEN SecondPass(g, s, res, taken, i + 1)
             ELSE SecondPass(g, s, [res EXCEPT ![i] = 1],
                             [taken EXCEPT ![j] = TRUE], i + 1)

\* the digits res[0..4] at the end of the two passes
Digits(g, s) ==
    LET fp == FirstPass(g, s)
    IN  SecondPass(g, s, fp.res, fp.taken, 1)

\* a compaction with a wrong weight on the fourth digit
PackWrongWeight(res) == res[1] + 3 * res[2] + 9 * res[3] + 18 * res[4] + 81 * res[5]

\* compact into int
Pack(res) == res[1] + 3 * res[2] + 9 * res[3] + 27 * res[4] + 81 * res[5]

encode_pattern(g, s) == Pack(Digits(g, s))

\* CHAR2DIGIT
CHAR2DIGIT == [c \in {"w", "W", "y", "Y", "g", "G"} |->
                 IF c \in {"w", "W"} THEN 0 ELSE IF c \in {"y", "Y"} THEN 1 ELSE 2]

\* strpat_to_code: the code, or the exception it raises
strpat_to_code(p) ==
    IF Len(p) # L THEN [err |-> "ValueError", code |-> 0]
    ELSE IF \E i \in 1..Len(p) : p[i] \notin DOMAIN CHAR2DIGIT
         THEN [err |-> "KeyError", code |-> 0]
         ELSE [err |-> "none",
               code |-> SumSeq([i \in 1..Len(p) |-> CHAR2DIGIT[p[i]] * POW3[i]])]

\* the pattern string a player types for a row of digits, in lower or upper case
Render(res, upper) ==
    [i \in Pos |-> IF res[i] = 0 THEN (IF upper THEN "W" ELSE "w")
                   ELSE IF res[i] = 1 THEN (IF upper THEN "Y" ELSE "y")
                   ELSE (IF upper THEN "G" ELSE "g")]

(* --------------------------- 1. word list ------------------------------ *)

CRANE == <<"C", "R", "A", "N", "E">>
SPEED == <<"S", "P", "E", "E", "D">>
ERASE == <<"E", "R", "A", "S", "E">>
SLATE == <<"S", "L", "A", "T", "E">>
TRACE == <<"T", "R", "A", "C", "E">>
GRADE == <<"G", "R", "A", "D", "E">>
PLATE == <<"P", "L", "A", "T", "E">>
TEASE == <<"T", "E", "A", "S", "E">>
EATER == <<"E", "A", "T", "E", "R">>
ZZZZZ == <<"Z", "Z", "Z", "Z", "Z">>

\* words a word list file may hold, in file order
WordBank == <<CRANE, ERASE, SLATE, SPEED, TRACE, TEASE, GRADE, EATER, PLATE>>

\* the letters of the word bank in both cases, in code point order
LowerCase == <<"a", "c", "d", "e", "g", "l", "n", "p", "r", "s", "t", "z">>
UpperCase == <<"A", "C", "D", "E", "G", "L", "N", "P", "R", "S", "T", "Z">>

\* str.upper() on one character
Upper(c) ==
    IF \E i \in 1..Len(LowerCase) : LowerCase[i] = c
    THEN UpperCase[CHOOSE i \in 1..Len(LowerCase) : LowerCase[i] = c]
    ELSE c

\* str.upper() on a word
UpperWord(w) == [i \in DOMAIN w |-> Upper(w[i])]

\* a word of the list as the lower-case word lists of the finders hold it
LowerWord(w) == [i \in DOMAIN w |-> LowerCase[CHOOSE k \in 1..Len(UpperCase) : UpperCase[k] = w[i]]]

\* the lines of all_words.txt in a run: the first NumWords words of the bank
\* in lower case and a line that is no five-letter word
AllWordsTxt ==
    [i \in 1..NumWords |-> LowerWord(WordBank[i])] \o <<<<"a", "c", "e">>>>

\* the lines of all_words.txt that hold the word list of the end-to-end
\* scenario
ScenarioTxt == <<CRANE, SLATE, TRACE, GRADE, PLATE>>

\* the list comprehension that builds WORDS: the lines of five characters,
\* in upper case
LoadWords(lines) ==
    LET five == SelectSeq(lines, LAMBDA w : Len(w) = 5)
    IN  [i \in 1..Len(five) |-> UpperWord(five[i])]

\* WORDS: the word list read at load time
VARIABLE WORDS

\* N = len(WORDS)
N == Len(WORDS)

\* INDEX.get(w): the index of w in WORDS, 0 for None. Index i stands for the
\* source's index i - 1.
INDEX(w) == IF \E i \in 1..N : WORDS[i] = w THEN CHOOSE i \in 1..N : WORDS[i] = w ELSE 0

(* ------------------------- 3. lazy row cache --------------------------- *)

\* _ROW_CACHE: guess index -> row of codes
VARIABLE ROW_CACHE

\* row = array('B', (encode_pattern(g, s) for s in WORDS))
ComputeRow(g_idx) == [s \in 1..N |-> encode_pattern(WORDS[g_idx], WORDS[s])]

\* pattern_row(g_idx): the stored row if there is one, else the row computed
pattern_row(g_idx) ==
    IF g_idx \in DOMAIN ROW_CACHE THEN ROW_CACHE[g_idx] ELSE ComputeRow(g_idx)

\* a cache that keeps only the rows asked for last
CacheAfterEvicting(cache, idxs) == [g \in idxs |-> ComputeRow(g)]

\* _ROW_CACHE after pattern_row has been called for every index of idxs
CacheAfter(cache, idxs) ==
    [g \in (DOMAIN cache) \cup idxs |->
        IF g \in DOMAIN cache THEN cache[g] ELSE ComputeRow(g)]

(* ---------------- 4. expected pool size scorer (depth 1) --------------- *)

\* a counting loop whose default for a new code is 1 instead of 0
BucketsDefaultOne(row, C) ==
    LET codes == {row[C[i]] : i \in 1..Len(C)}
    IN  [c \in codes |-> 1 + Cardinality({i \in 1..Len(C) : row[C[i]] = c})]

\* the loop "buckets[code] = buckets.get(code,0)+1" over the first n words of C
RECURSIVE BucketsLoop(_, _, _)
BucketsLoop(row, C, n) ==
    IF n = 0 THEN << >>
    ELSE LET b == BucketsLoop(row, C, n - 1)
             c == row[C[n]]
         IN  [k \in (DOMAIN b) \cup {c} |->
                 IF k = c THEN (IF c \in DOMAIN b THEN b[c] ELSE 0) + 1 ELSE b[k]]

\* buckets: feedback code -> number of words of C with that code
Buckets(row, C) == BucketsLoop(row, C, Len(C))

\* sum(v*v for v in buckets.values())
RECURSIVE SumSquares(_, _)
SumSquares(b, keys) ==
    IF keys = {} THEN 0
    ELSE LET k == CHOOSE x \in keys : TRUE
         IN  b[k] * b[k] + SumSquares(b, keys \ {k})

\* exp_size_one(guess_idx, C): the quotient tot / len(C) as the fraction
\* num/den, or the ZeroDivisionError raised for an empty C
exp_size_one(guess_idx, C) ==
    LET buckets == Buckets(pattern_row(guess_idx), C)
        tot     == SumSquares(buckets, DOMAIN buckets)
    IN  IF Len(C) = 0 THEN [err |-> "ZeroDivisionError", num |-> 0, den |-> 1]
        ELSE [err |-> "none", num |-> tot, den |-> Len(C)]

\* comparison of two fractions with positive denominators
FracLess(a, b)  == a.num * b.den < b.num * a.den
FracEq(a, b)    == a.num * b.den = b.num * a.den

(* ------------------- 5. depth-limited beam scorer ---------------------- *)

\* a grouping loop that overwrites the list of a code instead of appending
GroupsOverwrite(row, C) ==
    LET codes == {row[C[i]] : i \in 1..Len(C)}
    IN  [c \in codes |->
            <<C[CHOOSE i \in 1..Len(C) :
                    /\ row[C[i]] = c
                    /\ \A j \in 1..Len(C) : row[C[j]] = c => j <= i]>>]

\* the loop "groups.setdefault(code, []).append(s_idx)" over the first n words
RECURSIVE GroupsLoop(_, _, _)
GroupsLoop(row, C, n) ==
    IF n = 0 THEN << >>
    ELSE LET gr == GroupsLoop(row, C, n - 1)
             c  == row[C[n]]
         IN  [k \in (DOMAIN gr) \cup {c} |->
                 IF k = c THEN (IF c \in DOMAIN gr THEN gr[c] ELSE << >>) \o <<C[n]>>
                 ELSE gr[k]]

\* groups: feedback code -> list of the words of C with that code, in C's order
Groups(row, C) == GroupsLoop(row, C, Len(C))

\* the second pools score_depth may evaluate for a branch: the branch itself,
\* or any random.sample(subset, sample_k) when sample_k is set and smaller
SecondPools(subset, sample_k) ==
    IF sample_k # 0 /\ Len(subset) > sample_k
    THEN {S \in SUBSET Range(subset) : Cardinality(S) = sample_k}
    ELSE {Range(subset)}

\* a best second move that takes the least score of the second pool
BestSecondLeast(subset, second_pool) ==
    LET sc(h) == exp_size_one(h, subset)
    IN  sc(CHOOSE h \in second_pool : \A h2 \in second_pool : ~FracLess(sc(h2), sc(h)))

\* max(exp_size_one(h_idx, subset) for h_idx in second_pool)
BestSecond(subset, second_pool) ==
    LET sc(h) == exp_size_one(h, subset)
    IN  sc(CHOOSE h \in second_pool : \A h2 \in second_pool : ~FracLess(sc(h), sc(h2)))

\* the values "total" may take after the branches keys have been added: each
\* branch adds best_second * len(subset); rows are the second guesses scored
RECURSIVE Totals(_, _, _)
Totals(groups, keys, sample_k) ==
    IF keys = {} THEN {[num |-> 0, rows |-> {}]}
    ELSE LET k      == CHOOSE x \in keys : TRUE
             subset == groups[k]
         IN  {[num  |-> t.num + (BestSecond(subset, sp).num * Len(subset)) \div Len(subset),
               rows |-> t.rows \cup sp] :
                 t \in Totals(groups, keys \ {k}, sample_k),
                 sp \in SecondPools(subset, sample_k)}

\* score_depth(guess_idx, C, depth, sample_k): every result the call may
\* have, one per outcome of the random samples, with the rows it has touched
score_depth(guess_idx, C, depth, sample_k) ==
    IF depth = 1
    THEN {[sc |-> exp_size_one(guess_idx, C), rows |-> {guess_idx}]}
    ELSE LET groups == Groups(pattern_row(guess_idx), C)
         IN  IF Len(C) = 0
             THEN {[sc   |-> [err |-> "ZeroDivisionError", num |-> 0, den |-> 1],
                    rows |-> {guess_idx}]}
             ELSE {[sc   |-> [err |-> "none", num |-> t.num, den |-> Len(C)],
                    rows |-> t.rows \cup {guess_idx}] :
                        t \in Totals(groups, DOMAIN groups, sample_k)}

(* --------------------------- 6. main chooser --------------------------- *)

\* a heap entry built from the score itself instead of its negation
HeapEntryNotNegated(sc, g_idx) == [negnum |-> sc.num, den |-> sc.den, idx |-> g_idx]

\* the tuple (-sc, g_idx) pushed on the heap
HeapEntry(sc, g_idx) == [negnum |-> 0 - sc.num, den |-> sc.den, idx |-> g_idx]

\* tuple comparison of two heap entries
EntryLess(a, b) ==
    \/ a.negnum * b.den < b.negnum * a.den
    \/ a.negnum * b.den = b.negnum * a.den /\ a.idx < b.idx

\* heapq.heappop, n times: the smallest entries in increasing order
RECURSIVE PopN(_, _)
PopN(heap, n) ==
    IF n = 0 THEN << >>
    ELSE LET e == CHOOSE x \in heap : \A y \in heap : x = y \/ EntryLess(x, y)
         IN  <<[word |-> WORDS[e.idx], score |-> [num |-> 0 - e.negnum, den |-> e.den]]>>
             \o PopN(heap \ {e}, n - 1)

\* the pools recommend may evaluate: C itself, or any rng.sample(pool, sample_k)
EvalPools(C, sample_k) ==
    IF sample_k # 0 /\ Len(C) > sample_k
    THEN {p \in [1..sample_k -> Range(C)] : \A i, j \in 1..sample_k : i # j => p[i] # p[j]}
    ELSE {C}

\* recommend, given the evaluated pool and the score computed for each guess
Recommended(pool, scored, top_n) ==
    LET heap == {HeapEntry(scored[g], g) : g \in Range(pool)}
        n    == IF top_n < Cardinality(heap) THEN top_n ELSE Cardinality(heap)
    IN  PopN(heap, n)

(* ------------------ 7. constraint filtering ---------------------------- *)

\* a banned-letter test that forgets to upper-case the letters
BannedHitNoUpper(banned_letters, w) ==
    \E i \in 1..Len(banned_letters) : In(banned_letters[i], w)

\* any(letter in WORDS[s_idx] for letter in banned_upper)
BannedHit(banned_letters, w) ==
    \E i \in 1..Len(banned_letters) : In(Upper(banned_letters[i]), w)

\* the loop over the constraints keeping every word that repeats the matches
\* of the observed code, whatever its other digits
RECURSIVE ConstraintLoopGreensOnly(_, _, _)
ConstraintLoopGreensOnly(constraints, C, rows) ==
    IF constraints = << >> THEN [err |-> "none", C |-> C, rows |-> rows]
    ELSE LET g_idx    == INDEX(Head(constraints).guess)
             pat_code == Head(constraints).code
         IN  IF g_idx = 0 THEN [err |-> "ValueError", C |-> << >>, rows |-> rows]
             ELSE ConstraintLoopGreensOnly(Tail(constraints),
                      SelectSeq(C, LAMBDA s_idx :
                          \A i \in Pos :
                              (pat_code \div POW3[i]) % 3 = 2
                                  => (pattern_row(g_idx)[s_idx] \div POW3[i]) % 3 = 2),
                      rows \cup {g_idx})

\* the loop over the constraints: the pool left, or the ValueError raised at
\* the first unknown guess; rows are the rows pattern_row was asked for
RECURSIVE ConstraintLoop(_, _, _)
ConstraintLoop(constraints, C, rows) ==
    IF constraints = << >> THEN [err |-> "none", C |-> C, rows |-> rows]
    ELSE LET g_idx    == INDEX(Head(constraints).guess)
             pat_code == Head(constraints).code
         IN  IF g_idx = 0 THEN [err |-> "ValueError", C |-> << >>, rows |-> rows]
             ELSE ConstraintLoop(Tail(constraints),
                      SelectSeq(C, LAMBDA s_idx : pattern_row(g_idx)[s_idx] = pat_code),
                      rows \cup {g_idx})

\* filter_candidates(constraints, banned_letters)
filter_candidates(constraints, banned_letters) ==
    LET r == ConstraintLoop(constraints, [i \in 1..N |-> i], {})
    IN  IF r.err # "none" \/ banned_letters = << >> THEN r
        ELSE [r EXCEPT !.C = SelectSeq(r.C,
                  LAMBDA s_idx : ~BannedHit(banned_letters, WORDS[s_idx]))]

(* --------------- advanced word finder: the five filters ---------------- *)

\* a filter that deletes from the list it is iterating over: after a deleted
\* word the loop skips the word that has moved into its place
RECURSIVE RemoveWhileIterating(_, _, _)
RemoveWhileIterating(words, banned_letters, i) ==
    IF i > Len(words) THEN words
    ELSE IF \E letter \in banned_letters : In(letter, words[i])
         THEN RemoveWhileIterating(SubSeq(words, 1, i - 1) \o SubSeq(words, i + 1, Len(words)),
                                   banned_letters, i + 1)
         ELSE RemoveWhileIterating(words, banned_letters, i + 1)

FilterByBannedRemoving(words, banned_letters) ==
    IF banned_letters = {} THEN words
    ELSE RemoveWhileIterating(words, banned_letters, 1)

\* a filter that hands back its input when no word matches
FilterByMinCountsFallback(words, min_counts) ==
    IF DOMAIN min_counts = {} THEN words
    ELSE LET filtered == SelectSeq(words, LAMBDA word :
                             \A letter \in DOMAIN min_counts :
                                 Count(letter, word) >= min_counts[letter])
         IN  IF filtered = << >> THEN words ELSE filtered

\* filter_by_required_letters(words, required_letters)
filter_by_required_letters(words, required_letters) ==
    IF required_letters = {} THEN words
    ELSE SelectSeq(words, LAMBDA word : \A letter \in required_letters : In(letter, word))

\* filter_by_banned_letters(words, banned_letters)
filter_by_banned_letters(words, banned_letters) ==
    IF banned_letters = {} THEN words
    ELSE SelectSeq(words, LAMBDA word : ~(\E letter \in banned_letters : In(letter, word)))

\* filter_by_letter_counts(words, letter_counts)
filter_by_letter_counts(words, letter_counts) ==
    IF DOMAIN letter_counts = {} THEN words
    ELSE SelectSeq(words, LAMBDA word :
             \A letter \in DOMAIN letter_counts :
                 Count(letter, word) = letter_counts[letter])

\* filter_by_min_letter_counts(words, min_counts)
filter_by_min_letter_counts(words, min_counts) ==
    IF DOMAIN min_counts = {} THEN words
    ELSE SelectSeq(words, LAMBDA word :
             \A letter \in DOMAIN min_counts :
                 Count(letter, word) >= min_counts[letter])

\* filter_by_position_constraints(words, position_constraints); the key of a
\* constraint is the position, its value the pair (letter, must_be)
filter_by_position_constraints(words, position_constraints) ==
    IF DOMAIN position_constraints = {} THEN words
    ELSE SelectSeq(words, LAMBDA word :
             \A pos \in DOMAIN position_constraints :
                 LET letter  == position_constraints[pos][1]
                     must_be == position_constraints[pos][2]
                 IN  IF must_be THEN word[pos] = letter ELSE word[pos] # letter)

\* one of the five filters of the taxonomy, by name, on the round's criteria
ApplyFilter(kind, words, crit) ==
    CASE kind = "required" -> filter_by_required_letters(words, crit.required_set)
      [] kind = "banned"   -> filter_by_banned_letters(words, crit.banned_set)
      [] kind = "exact"    -> filter_by_letter_counts(words, crit.exact_counts_dict)
      [] kind = "min"      -> filter_by_min_letter_counts(words, crit.min_counts_dict)
      [] kind = "position" -> filter_by_position_constraints(words, crit.position_dict)

\* the filter calls of main, made in the order given
RECURSIVE ApplyFilters(_, _, _)
ApplyFilters(order, words, crit) ==
    IF order = << >> THEN words
    ELSE ApplyFilters(Tail(order), ApplyFilter(Head(order), words, crit), crit)

\* the order in which main calls the filters
MainOrder == <<"required", "banned", "exact", "min", "position">>

\* hvowels, evowels
hvowels == {"u", "y"}
evowels == {"a", "e", "i", "o"}

\* score_word(word)
score_word(word) ==
    LET vowel_count         == Cardinality({i \in DOMAIN word : word[i] \in evowels \cup hvowels})
        unique_hvowel_count == Cardinality(Range(word) \cap hvowels)
        unique_evowel_count == Cardinality(Range(word) \cap evowels)
        unique_letters      == Cardinality(Range(word))
    IN  11 * unique_hvowel_count + 10 * unique_evowel_count + unique_letters + vowel_count

\* code point order of two lower-case letters
CharLess(a, b) ==
    (CHOOSE i \in 1..Len(LowerCase) : LowerCase[i] = a)
        < (CHOOSE i \in 1..Len(LowerCase) : LowerCase[i] = b)

\* str < str for two words of equal length
WordLess(v, w) ==
    \E i \in DOMAIN v : CharLess(v[i], w[i]) /\ \A j \in 1..(i - 1) : v[j] = w[j]

\* tuple comparison (score, word) < (score, word)
PairLess(a, b) == a[1] < b[1] \/ (a[1] = b[1] /\ WordLess(a[2], b[2]))

\* sorted(...) of a set of (score, word) pairs
RECURSIVE SortedPairs(_)
SortedPairs(S) ==
    IF S = {} THEN << >>
    ELSE LET m == CHOOSE x \in S : \A y \in S : x = y \/ PairLess(x, y)
         IN  <<m>> \o SortedPairs(S \ {m})

(* ------------------------------- state --------------------------------- *)

VARIABLES
    pc,                 \* position of the program being run
    guess,              \* encode_pattern: guess
    sol,                \* encode_pattern: sol
    res,                \* encode_pattern: res at the end of the second pass
    code,               \* encode_pattern: returned code
    pat,                \* strpat_to_code: pat
    pat_code,           \* strpat_to_code: returned code or raised exception
    constraints,        \* main: constraints, the played (guess, code) pairs
    banned_letters,     \* main: ns.banned_letters
    C,                  \* main: C, the candidate pool
    raised,             \* the exception the last call has raised, or "none"
    guess_idx,          \* score_depth: guess_idx
    depth,              \* depth
    sample_k,           \* sample_k; 0 stands for None, which the code tests alike
    top_n,              \* recommend: top_n
    buckets,            \* exp_size_one: buckets
    groups,             \* score_depth: groups
    sc,                 \* score_depth: returned score
    pool,               \* recommend: pool, the guesses evaluated
    scored,             \* recommend: the score computed for each guess of pool
    top,                \* recommend: out
    size,               \* main: size
    phase,              \* main: phase
    words,              \* advanced word finder: words
    required_set,       \* advanced word finder: required_set
    banned_set,         \* advanced word finder: banned_set
    exact_counts_dict,  \* advanced word finder: exact_counts_dict
    min_counts_dict,    \* advanced word finder: min_counts_dict
    position_dict,      \* advanced word finder: position_dict
    filtered_words,     \* advanced word finder: filtered_words
    g_called,           \* pattern_row: g_idx of the last call, 0 before any
    ret_row,            \* pattern_row: the row the last call returned
    enc_calls,          \* number of encode_pattern calls made so far
    n_calls,            \* number of pattern_row calls made so far
    history,            \* main: the items of ns.history not yet read
    exit_msg,           \* main: the message given to sys.exit, or None
    printed,            \* main: the lines printed so far
    valid_guesses,      \* greedy solver: valid_guesses
    state,              \* greedy solver: state, the DontWordleState
    best_guesses,       \* greedy solver: best_guesses
    rounds,             \* greedy solver: rounds of the loop begun so far
    n_top,              \* find_best_guesses: num_top of the last call, 0 before any
    positions,          \* advanced word finder: positions, the line typed, split at ','
    feedback,           \* get_wordle_feedback: the string returned
    answer,             \* the word the game is played against
    seed,               \* main: ns.seed, the value random.Random is built from
    first_top           \* the list recommend returned on the first of two runs

encVars   == <<guess, sol, res, code, pat, pat_code>>
inVars    == <<constraints, banned_letters>>
poolVars  == <<C, raised, ROW_CACHE>>
callVars  == <<guess_idx, depth, sample_k, top_n>>
scoreVars == <<buckets, groups, sc>>
recVars   == <<pool, scored, top>>
phaseVars == <<size, phase>>
advVars   == <<words, required_set, banned_set, exact_counts_dict, min_counts_dict,
               position_dict, filtered_words>>

cacheVars == <<g_called, ret_row, enc_calls, n_calls>>

\* the state of the programs and calls modelled further down
cliVars == <<history, exit_msg, printed>>

greedyVars == <<valid_guesses, state, best_guesses, rounds, n_top>>

loadVars == <<WORDS>>

seedVars == <<seed, first_top>>

lineVars == <<positions>>

fbVars == <<feedback, answer>>

extVars == <<cacheVars, cliVars, greedyVars, loadVars, seedVars, lineVars, fbVars>>

vars == <<pc, encVars, inVars, poolVars, callVars, scoreVars, recVars, phaseVars, advVars,
          extVars>>

\* the parts of the state a program does not use
EncIdle ==
    /\ guess = None /\ sol = None /\ res = None /\ code = None
    /\ pat = None /\ pat_code = None

SolverIdle ==
    /\ constraints = None /\ banned_letters = None
    /\ C = None /\ raised = "none" /\ ROW_CACHE = << >>

RankIdle ==
    /\ guess_idx = 0 /\ depth = 0 /\ sample_k = 0 /\ top_n = 0
    /\ buckets = None /\ groups = None /\ sc = None
    /\ pool = None /\ scored = None /\ top = None

PhaseIdle == size = None /\ phase = None

AdvIdle ==
    /\ words = None /\ required_set = None /\ banned_set = None
    /\ exact_counts_dict = None /\ min_counts_dict = None
    /\ position_dict = None /\ filtered_words = None

CacheIdle == g_called = 0 /\ ret_row = None /\ enc_calls = 0 /\ n_calls = 0

CliIdle == history = None /\ exit_msg = None /\ printed = None

GreedyIdle ==
    /\ valid_guesses = None /\ state = None /\ best_guesses = None /\ rounds = 0
    /\ n_top = 0

SeedIdle == seed = 0 /\ first_top = None

LineIdle == positions = None

FbIdle == feedback = None /\ answer = None

ExtIdle == CacheIdle /\ CliIdle /\ GreedyIdle /\ SeedIdle /\ LineIdle /\ FbIdle

(* ---------------- encoder: inputs drawn, function applied -------------- *)

InitEnc ==
    /\ WORDS = LoadWords(AllWordsTxt)
    /\ pc = "enc_start"
    /\ guess \in FirstUseWords
    /\ sol \in AllWords
    /\ res = None
    /\ code = None
    /\ pat = None
    /\ pat_code = None
    /\ SolverIdle /\ RankIdle /\ PhaseIdle /\ AdvIdle /\ ExtIdle

\* encode_pattern(guess, sol)
Encode ==
    /\ pc = "enc_start"
    /\ res' = Digits(guess, sol)
    /\ code' = encode_pattern(guess, sol)
    /\ pc' = "enc_done"
    /\ UNCHANGED <<guess, sol, pat, pat_code>>
    /\ UNCHANGED <<inVars, poolVars, callVars, scoreVars, recVars, phaseVars, advVars,
                 extVars>>

\* the patterns handed to strpat_to_code for the feedback just computed: the
\* feedback as typed in either case, cut short, or with a foreign character
PatInputs(r) ==
    {Render(r, FALSE), Render(r, TRUE),
     SubSeq(Render(r, FALSE), 1, L - 1),
     [Render(r, FALSE) EXCEPT ![1] = "b"]}

\* strpat_to_code(pat)
StrPat ==
    /\ pc = "enc_done"
    /\ \E p \in PatInputs(res) :
         /\ pat' = p
         /\ pat_code' = strpat_to_code(p)
    /\ pc' = "pat_done"
    /\ UNCHANGED <<guess, sol, res, code>>
    /\ UNCHANGED <<inVars, poolVars, callVars, scoreVars, recVars, phaseVars, advVars,
                 extVars>>

NextEnc == Encode \/ StrPat

SpecEnc == InitEnc /\ [][NextEnc]_vars

(* ------------- solver: history drawn, pool filtered and ranked --------- *)

\* the feedback codes a played guess may be given: a code some word of the
\* list produces, or the all-white code
PlayedCodes(g) == {ComputeRow(g)[s] : s \in 1..N} \cup {0}

\* the played (guess, code) pairs: a word of the list with a code, or a word
\* that is not in the list
Played ==
    {[guess |-> WORDS[g], code |-> c] : g \in 1..N, c \in 0..(3 ^ L - 1)}

PlayedInputs ==
    {p \in Played : p.code \in PlayedCodes(INDEX(p.guess))}
        \cup {[guess |-> ZZZZZ, code |-> 0]}

\* histories of at most n played pairs
Histories(n) == UNION {[1..k -> PlayedInputs] : k \in 0..n}

\* values of --banned-letters
BannedInputs == {<< >>, <<"n">>, <<"P", "d">>}

InitSolver(n) ==
    /\ WORDS = LoadWords(AllWordsTxt)
    /\ pc = "start"
    /\ constraints \in Histories(n)
    /\ banned_letters \in BannedInputs
    /\ C = None
    /\ raised = "none"
    /\ ROW_CACHE = << >>
    /\ EncIdle /\ RankIdle /\ PhaseIdle /\ AdvIdle /\ ExtIdle

\* C = filter_candidates(constraints, ns.banned_letters)
Filter ==
    /\ pc = "start"
    /\ LET r == filter_candidates(constraints, banned_letters)
       IN  /\ C' = r.C
           /\ raised' = r.err
           /\ ROW_CACHE' = CacheAfter(ROW_CACHE, r.rows)
           /\ pc' = IF r.err = "none" THEN "filtered" ELSE "raised"
    /\ UNCHANGED <<encVars, inVars, callVars, scoreVars, recVars, phaseVars, advVars,
                 extVars>>

\* the sample sizes a call is given: None, or the number SampleK
SampleInputs == {0, SampleK}

\* score_depth(g, C, d, k), called on the pool for any guess index
ScoreDepthCall(g, d, k) ==
    /\ pc = "filtered"
    /\ guess_idx' = g
    /\ depth' = d
    /\ sample_k' = k
    /\ buckets' = IF d = 1 THEN Buckets(pattern_row(g), C) ELSE None
    /\ groups' = IF d = 1 THEN None ELSE Groups(pattern_row(g), C)
    /\ \E r \in score_depth(g, C, d, k) :
         /\ sc' = r.sc
         /\ raised' = r.sc.err
         /\ ROW_CACHE' = CacheAfter(ROW_CACHE, r.rows)
    /\ pc' = "scored"
    /\ UNCHANGED <<C, top_n>>
    /\ UNCHANGED <<encVars, inVars, recVars, phaseVars, advVars,
                 extVars>>

ScoreDepth == \E g \in 1..N, d \in {1, 2}, k \in SampleInputs : ScoreDepthCall(g, d, k)

\* recommend(C, depth=d, sample_k=k, top_n=n)
RecommendCall(d, k, n) ==
    /\ pc = "filtered"
    /\ depth' = d
    /\ sample_k' = k
    /\ top_n' = n
    /\ \E p \in EvalPools(C, k) :
       \E rs \in [Range(p) -> UNION {score_depth(g, C, d, k) : g \in Range(p)}] :
         /\ \A g \in Range(p) : rs[g] \in score_depth(g, C, d, k)
         /\ pool' = p
         /\ scored' = [g \in Range(p) |-> rs[g].sc]
         /\ top' = Recommended(p, [g \in Range(p) |-> rs[g].sc], n)
         /\ ROW_CACHE' = CacheAfter(ROW_CACHE, UNION {rs[g].rows : g \in Range(p)})
    /\ pc' = "recommended"
    /\ UNCHANGED <<C, raised, guess_idx>>
    /\ UNCHANGED <<encVars, inVars, scoreVars, phaseVars, advVars,
                 extVars>>

Recommend ==
    \E d \in {1, 2}, k \in SampleInputs, n \in {TopFew, DefaultTopN} : RecommendCall(d, k, n)

InitRank == InitSolver(MaxRankHist)

NextRank == Filter \/ ScoreDepth \/ Recommend

SpecRank == InitRank /\ [][NextRank]_vars

(* ---------------------------- phase selection -------------------------- *)

\* the thresholds of main
HugeAbove == 1000
MidAbove == 500
HugeSample == 1000

\* a selection that compares with >= instead of >
PhaseOfInclusive(n) ==
    IF n >= HugeAbove THEN [depth |-> 1, sample_k |-> HugeSample, phase |-> "huge"]
    ELSE IF n >= MidAbove THEN [depth |-> 1, sample_k |-> 0, phase |-> "mid"]
    ELSE [depth |-> 2, sample_k |-> 0, phase |-> "end"]

\* decide phase/depth/sample
PhaseOf(n) ==
    IF n > HugeAbove THEN [depth |-> 1, sample_k |-> HugeSample, phase |-> "huge"]
    ELSE IF n > MidAbove THEN [depth |-> 1, sample_k |-> 0, phase |-> "mid"]
    ELSE [depth |-> 2, sample_k |-> 0, phase |-> "end"]

InitPhase ==
    /\ WORDS = LoadWords(AllWordsTxt)
    /\ pc = "sized"
    /\ size \in 0..MaxSize
    /\ phase = None
    /\ depth = 0 /\ sample_k = 0
    /\ guess_idx = 0 /\ top_n = 0
    /\ buckets = None /\ groups = None /\ sc = None
    /\ pool = None /\ scored = None /\ top = None
    /\ EncIdle /\ SolverIdle /\ AdvIdle /\ ExtIdle

SelectPhase ==
    /\ pc = "sized"
    /\ depth' = PhaseOf(size).depth
    /\ sample_k' = PhaseOf(size).sample_k
    /\ phase' = PhaseOf(size).phase
    /\ pc' = "phased"
    /\ UNCHANGED <<size, guess_idx, top_n>>
    /\ UNCHANGED <<encVars, inVars, poolVars, scoreVars, recVars, advVars,
                 extVars>>

NextPhase == SelectPhase

SpecPhase == InitPhase /\ [][NextPhase]_vars

(* --------------- advanced word finder: the rounds of main -------------- *)

Reverse(s) == [i \in 1..Len(s) |-> s[Len(s) + 1 - i]]

\* the lower-case word list as read from the files
FinderWords == [i \in 1..N |-> LowerWord(WORDS[i])]

\* random.shuffle(words): orders of the word list
ShuffledInputs == {FinderWords, Reverse(FinderWords)}

EmptyDict == << >>

\* the criteria a round is given, as parsed
RequiredInputs == {{}, {"e"}, {"s", "e"}, {"g"}}
BannedSetInputs == {{}, {"s"}, {"c", "t"}, {"e"}}
ExactInputs == {EmptyDict, [x \in {"e"} |-> 2], [x \in {"e", "a"} |-> 1], [x \in {"s"} |-> 0]}
MinInputs == {EmptyDict, [x \in {"e"} |-> 2], [x \in {"a", "e"} |-> 1], [x \in {"s"} |-> 2]}
PositionInputs ==
    {EmptyDict,
     [p \in {1} |-> <<"s", TRUE>>],
     [p \in {5} |-> <<"e", FALSE>>],
     [p \in {1, 5} |-> IF p = 1 THEN <<"c", FALSE>> ELSE <<"e", TRUE>>],
     [p \in {3} |-> <<"a", TRUE>>]}

InitAdv ==
    /\ WORDS = LoadWords(AllWordsTxt)
    /\ pc = "adv_loop"
    /\ words \in ShuffledInputs
    /\ required_set = None
    /\ banned_set = None
    /\ exact_counts_dict = None
    /\ min_counts_dict = None
    /\ position_dict = None
    /\ filtered_words = None
    /\ EncIdle /\ SolverIdle /\ RankIdle /\ PhaseIdle /\ ExtIdle

\* "# Get filtering criteria": the five inputs of a round, parsed
AdvRead ==
    /\ pc = "adv_loop"
    /\ required_set' \in RequiredInputs
    /\ banned_set' \in BannedSetInputs
    /\ exact_counts_dict' \in ExactInputs
    /\ min_counts_dict' \in MinInputs
    /\ position_dict' \in PositionInputs
    /\ pc' = "adv_read"
    /\ UNCHANGED <<words, filtered_words>>
    /\ UNCHANGED <<encVars, inVars, poolVars, callVars, scoreVars, recVars, phaseVars,
                 extVars>>

\* the criteria of the round
Crit ==
    [required_set |-> required_set, banned_set |-> banned_set,
     exact_counts_dict |-> exact_counts_dict, min_counts_dict |-> min_counts_dict,
     position_dict |-> position_dict]

\* "# Apply filters": filtered_words = words, then the five filter calls
AdvFilter ==
    /\ pc = "adv_read"
    /\ filtered_words' = ApplyFilters(MainOrder, words, Crit)
    /\ pc' = "adv_filtered"
    /\ UNCHANGED <<words, required_set, banned_set, exact_counts_dict, min_counts_dict,
                   position_dict>>
    /\ UNCHANGED <<encVars, inVars, poolVars, callVars, scoreVars, recVars, phaseVars,
                 extVars>>

\* the rest of the round: filtered_words is sorted by (score_word, word) and
\* printed, and the loop starts over; the criteria are read anew in the next
\* round, so their old values are dropped here
AdvPresent ==
    /\ pc = "adv_filtered"
    /\ filtered_words' = SortedPairs({<<score_word(w), w>> : w \in Range(filtered_words)})
    /\ required_set' = None
    /\ banned_set' = None
    /\ exact_counts_dict' = None
    /\ min_counts_dict' = None
    /\ position_dict' = None
    /\ pc' = "adv_loop"
    /\ UNCHANGED words
    /\ UNCHANGED <<encVars, inVars, poolVars, callVars, scoreVars, recVars, phaseVars,
                 extVars>>

(* -------------- the candidate filters of both programs ----------------- *)

InitFilters == InitSolver(MaxHist) \/ InitAdv

NextFilters == Filter \/ AdvRead \/ AdvFilter \/ AdvPresent

SpecFilters == InitFilters /\ [][NextFilters]_vars

(* ----------------------- encoder: properties --------------------------- *)

\* base-3 digit of a code at position i (position 1 least significant)
Digit(c, i) == (c \div POW3[i]) % 3

\* number of positions of g holding x whose digit in code c is 1 or 2
Marked(x, g, c) == Cardinality({i \in Pos : g[i] = x /\ Digit(c, i) \in {1, 2}})

\* C1: for every guess, target and letter x, the guess positions holding x
\* that the returned code marks present or match are at most the occurrences
\* of x in the target; SPEED against ERASE marks exactly two E's.
C1_NoOverCount ==
    /\ pc # "enc_start" =>
         \A x \in Letters : Marked(x, guess, code) <= Count(x, sol)
    /\ Marked("E", SPEED, encode_pattern(SPEED, ERASE)) = 2

\* a guess repeats a letter more often than the target holds it, and the
\* encoder has marked as many as the target holds and left the others absent
C1_Witness ==
    /\ pc = "enc_done"
    /\ \E x \in Letters :
         /\ Count(x, sol) >= 1
         /\ Count(x, guess) > Count(x, sol)
         /\ Marked(x, guess, code) = Count(x, sol)
         /\ \E i \in Pos : guess[i] = x /\ Digit(code, i) = 1
         /\ \E i \in Pos : guess[i] = x /\ Digit(code, i) = 0

\* C7: encode_pattern(g, g) is the all-match code 242, every digit 2.
C7_SelfIsAllMatch ==
    (pc # "enc_start" /\ guess = sol) =>
        /\ code = 242
        /\ \A i \in Pos : Digit(code, i) = 2

\* a word with a repeated letter has been encoded against itself
C7_Witness ==
    /\ pc = "enc_done"
    /\ guess = sol
    /\ \E i, j \in Pos : i # j /\ guess[i] = guess[j]
    /\ code = 242

\* largest value of an unsigned byte, array('B')
ByteMax == 255

\* C8: the code is in [0, 243), is the sum of digit_i * 3^i with digit 2 for
\* a match, 1 for present elsewhere and 0 for absent, fits an unsigned byte,
\* and strpat_to_code gives a g/y/w pattern the same position-to-digit layout.
C8_CodeLayout ==
    /\ pc # "enc_start" =>
         /\ code \in 0..(3 ^ L - 1)
         /\ code <= ByteMax
         /\ code = SumSeq([i \in Pos |-> res[i] * POW3[i]])
         /\ \A i \in Pos :
              /\ res[i] \in {0, 1, 2}
              /\ Digit(code, i) = res[i]
              /\ res[i] = 2 <=> guess[i] = sol[i]
              /\ res[i] = 1 => In(guess[i], sol)
    /\ (pc = "pat_done" /\ pat_code.err = "none") =>
         /\ \A i \in Pos : Digit(pat_code.code, i) = CHAR2DIGIT[pat[i]]
         /\ pat_code.code = code

\* a feedback holding all three digits has been encoded and its typed
\* pattern has been parsed
C8_Witness ==
    /\ pc = "pat_done"
    /\ pat_code.err = "none"
    /\ \A d \in {0, 1, 2} : \E i \in Pos : res[i] = d
    /\ pat_code.code = code

(* ------------------- candidate filter: properties ---------------------- *)

\* the word at index s holds the letter b or its upper-case form
HoldsBanned(s, b) == \E j \in Pos : WORDS[s][j] = b \/ WORDS[s][j] = Upper(b)

\* the word at index s satisfies every played pair and holds no banned letter
Consistent(s) ==
    /\ \A i \in 1..Len(constraints) :
         pattern_row(INDEX(constraints[i].guess))[s] = constraints[i].code
    /\ \A i \in 1..Len(banned_letters) : ~HoldsBanned(s, banned_letters[i])

\* C2: filter_candidates returns exactly the indices of the full word list
\* whose row entry equals the code of every played pair and whose word holds
\* no banned letter, each once, in increasing order.
C2_FilterExact ==
    pc = "filtered" =>
        /\ Range(C) \subseteq 1..N
        /\ Range(C) = {s \in 1..N : Consistent(s)}
        /\ \A i, j \in 1..Len(C) : i < j => C[i] < C[j]

\* two played pairs and a banned letter have been applied; one word is
\* dropped by a played pair alone, another by the banned letter alone
C2_Witness ==
    /\ pc = "filtered"
    /\ Len(constraints) = 2
    /\ C # << >>
    /\ \E s \in 1..N :
         /\ \E i \in 1..Len(banned_letters) : HoldsBanned(s, banned_letters[i])
         /\ \A i \in 1..2 : pattern_row(INDEX(constraints[i].guess))[s] = constraints[i].code
    /\ \E s \in 1..N :
         /\ \A i \in 1..Len(banned_letters) : ~HoldsBanned(s, banned_letters[i])
         /\ \E i \in 1..2 : pattern_row(INDEX(constraints[i].guess))[s] # constraints[i].code

Kinds == {"required", "banned", "exact", "min", "position"}

\* C9: applying the same constraints a second time returns the identical
\* pool, same words in the same order: the played pairs and banned letters of
\* filter_candidates, each of the five filters, and the five calls together.
C9_FilterIdempotent ==
    /\ pc = "filtered" =>
         /\ filter_candidates(constraints \o constraints,
                              banned_letters \o banned_letters).C = C
         /\ SelectSeq(C, LAMBDA s : Consistent(s)) = C
    /\ pc = "adv_filtered" =>
         /\ ApplyFilters(MainOrder, filtered_words, Crit) = filtered_words
         /\ \A k \in Kinds :
              ApplyFilter(k, ApplyFilter(k, words, Crit), Crit) = ApplyFilter(k, words, Crit)

\* a round whose filters have dropped some words and kept at least two, and a
\* history that has dropped some words and kept some
C9_Witness ==
    \/ /\ pc = "adv_filtered"
       /\ banned_set # {}
       /\ Len(filtered_words) >= 2
       /\ Len(filtered_words) < Len(words)
    \/ /\ pc = "filtered"
       /\ constraints # << >>
       /\ C # << >>
       /\ Len(C) < N

\* the orders in which the five filter calls can be made
Orders == {[i \in 1..Len(MainOrder) |-> MainOrder[p[i]]] :
              p \in Permutations(1..Len(MainOrder))}

\* the orders in which a history can be given
Reorderings(s) == {[i \in 1..Len(s) |-> s[p[i]]] : p \in Permutations(1..Len(s))}

\* the banned letters applied before the played pairs
BannedFirst ==
    ConstraintLoop(constraints,
        SelectSeq([i \in 1..N |-> i],
                  LAMBDA s_idx : ~BannedHit(banned_letters, WORDS[s_idx])), {})

RECURSIVE SumLen(_, _)
SumLen(gr, keys) ==
    IF keys = {} THEN 0
    ELSE LET k == CHOOSE x \in keys : TRUE
         IN  Len(gr[k]) + SumLen(gr, keys \ {k})

\* sum of the counts of a dict of counts
RECURSIVE SumCount(_, _)
SumCount(b, keys) ==
    IF keys = {} THEN 0
    ELSE LET k == CHOOSE x \in keys : TRUE
         IN  b[k] + SumCount(b, keys \ {k})

\* C3: the grouping of C by feedback code is a disjoint cover of C: every
\* pool word lies once in exactly one bucket, the one keyed by its row entry,
\* no bucket is empty and the sizes sum to |C|; the same for the counts.
C3_DisjointCover ==
    pc = "scored" =>
        LET row == pattern_row(guess_idx)
        IN  /\ depth = 2 =>
                 /\ \A i \in 1..Len(C) :
                      \A k \in DOMAIN groups :
                          (k = row[C[i]]) <=> (C[i] \in Range(groups[k]))
                 /\ \A i \in 1..Len(C) : row[C[i]] \in DOMAIN groups
                 /\ \A k \in DOMAIN groups :
                      /\ groups[k] # << >>
                      /\ Range(groups[k]) \subseteq Range(C)
                      /\ \A a, b \in 1..Len(groups[k]) : a # b => groups[k][a] # groups[k][b]
                 /\ SumLen(groups, DOMAIN groups) = Len(C)
            /\ depth = 1 =>
                 /\ DOMAIN buckets = {row[C[i]] : i \in 1..Len(C)}
                 /\ \A k \in DOMAIN buckets :
                      /\ buckets[k] >= 1
                      /\ buckets[k] = Cardinality({i \in 1..Len(C) : row[C[i]] = k})
                 /\ SumCount(buckets, DOMAIN buckets) = Len(C)

\* a pool has been split by a guess into several buckets, one of them with
\* more than one word
C3_Witness ==
    /\ pc = "scored"
    /\ depth = 2
    /\ Cardinality(DOMAIN groups) >= 2
    /\ \E k \in DOMAIN groups : Len(groups[k]) >= 2

\* the orders in which a pool can be traversed
Traversals(s) == {[i \in 1..Len(s) |-> s[p[i]]] : p \in Permutations(1..Len(s))}

\* C4: for a non-empty pool the depth-1 score is (sum of squared bucket
\* sizes) / |C|, lies in [1, |C|], and is the same for every order in which
\* the pool is traversed.
C4_DepthOneScore ==
    (pc = "scored" /\ depth = 1 /\ C # << >>) =>
        LET row == pattern_row(guess_idx)
        IN  /\ sc.err = "none"
            /\ sc.den = Len(C)
            /\ sc.num = Cardinality({ij \in (1..Len(C)) \X (1..Len(C)) :
                                        row[C[ij[1]]] = row[C[ij[2]]]})
            /\ sc.den <= sc.num
            /\ sc.num <= Len(C) * sc.den
            /\ \A t \in Traversals(C) : exp_size_one(guess_idx, t) = sc

\* a depth-1 score strictly between 1 and |C| has been computed
C4_Witness ==
    /\ pc = "scored"
    /\ depth = 1
    /\ Len(C) >= 3
    /\ sc.den < sc.num
    /\ sc.num < Len(C) * sc.den

\* position of the index g in the pool C
PosIn(g) == CHOOSE i \in 1..Len(C) : C[i] = g

MaxCalls == 4

\* the encode_pattern calls that pattern_row(g_idx) makes: one per word of
\* WORDS when the row is not stored, none when it is
EncodeCalls(cache, g_idx) == IF g_idx \in DOMAIN cache THEN 0 ELSE N

\* all that a new action leaves alone of the programs above
baseVars == <<encVars, inVars, callVars, scoreVars, recVars, phaseVars, advVars>>

InitCache ==
    /\ WORDS = LoadWords(AllWordsTxt)
    /\ pc = "cache"
    /\ EncIdle /\ SolverIdle /\ RankIdle /\ PhaseIdle /\ AdvIdle /\ ExtIdle

\* pattern_row(g)
PatternRowCall(g) ==
    /\ pc = "cache"
    /\ n_calls < MaxCalls
    /\ g_called' = g
    /\ ret_row' = pattern_row(g)
    /\ enc_calls' = enc_calls + EncodeCalls(ROW_CACHE, g)
    /\ ROW_CACHE' = CacheAfter(ROW_CACHE, {g})
    /\ n_calls' = n_calls + 1
    /\ UNCHANGED <<pc, C, raised, baseVars, cliVars, greedyVars, loadVars, seedVars, lineVars, fbVars>>

PatternRow == \E g \in 1..N : PatternRowCall(g)

NextCache == PatternRow

SpecCache == InitCache /\ [][NextCache]_vars

\* C11: a call of pattern_row for an index with no stored row calls
\* encode_pattern once per word, stores the row of codes under that index and
\* returns it; a call for an index with a stored row returns that row and
\* calls encode_pattern no more; no call changes or removes a stored row.
C11_CacheOnce ==
    [][n_calls' = n_calls + 1 =>
        LET g == g_called'
        IN  /\ g \notin DOMAIN ROW_CACHE =>
                 /\ enc_calls' = enc_calls + N
                 /\ DOMAIN ROW_CACHE' = DOMAIN ROW_CACHE \cup {g}
                 /\ \A s \in 1..N :
                      ROW_CACHE'[g][s] = encode_pattern(WORDS[g], WORDS[s])
            /\ g \in DOMAIN ROW_CACHE =>
                 /\ enc_calls' = enc_calls
                 /\ ret_row' = ROW_CACHE[g]
                 /\ ROW_CACHE' = ROW_CACHE
            /\ ret_row' = ROW_CACHE'[g]
            /\ \A h \in DOMAIN ROW_CACHE :
                 h \in DOMAIN ROW_CACHE' /\ ROW_CACHE'[h] = ROW_CACHE[h]]_vars

\* two rows are stored, and a later call has been served from the cache
C11_Witness ==
    /\ pc = "cache"
    /\ Cardinality(DOMAIN ROW_CACHE) >= 2
    /\ n_calls > Cardinality(DOMAIN ROW_CACHE)
    /\ enc_calls = N * Cardinality(DOMAIN ROW_CACHE)
    /\ ret_row = ROW_CACHE[g_called]

(* ------------------------ scoring an empty pool ------------------------ *)

\* C12: with an empty pool scoring is guarded: exp_size_one and score_depth
\* raise no ZeroDivisionError, and scoring or ranking the empty pool ends in
\* the error state "no candidates remain".
C12_EmptyPoolGuarded ==
    C = << >> =>
        /\ pc = "scored" =>
             /\ sc.err # "ZeroDivisionError"
             /\ raised = "no candidates remain"
        /\ pc = "recommended" => raised = "no candidates remain"

(* ------------------- command-line solver: the run of main -------------- *)

\* most items of ns.history in a run
MaxItems == 2

\* the guesses typed in a history item: a word of the list in either case,
\* or a word that is not in the list
GuessInputs == {LowerWord(WORDS[1]), WORDS[3], ZZZZZ}

\* the patterns typed for a guess: the feedback of some word of the list in
\* either case, cut short, or with a foreign character; all white
PatternInputs(g) ==
    IF INDEX(UpperWord(g)) = 0 THEN {Render([i \in Pos |-> 0], FALSE)}
    ELSE PatInputs(Digits(UpperWord(g), WORDS[2]))
            \cup {Render(Digits(UpperWord(g), WORDS[N]), FALSE),
                  Render([i \in Pos |-> 0], FALSE)}

\* the items of ns.history: GUESS:PATTERN, or a token that does not split
\* into two parts at ":" (colons counts its ":" characters)
ItemInputs ==
    UNION {{[colons |-> 1, guess |-> g, pat |-> p] : p \in PatternInputs(g)} :
              g \in GuessInputs}
        \cup {[colons |-> k, guess |-> WORDS[1], pat |-> << >>] : k \in {0, 2}}

HistoryInputs == UNION {[1..k -> ItemInputs] : k \in 0..MaxItems}

InitCli ==
    /\ WORDS = LoadWords(AllWordsTxt)
    /\ pc = "cli_read"
    /\ history \in HistoryInputs
    /\ constraints = << >>
    /\ banned_letters \in BannedInputs
    /\ C = None
    /\ raised = "none"
    /\ ROW_CACHE = << >>
    /\ exit_msg = None
    /\ printed = << >>
    /\ EncIdle /\ RankIdle /\ PhaseIdle /\ AdvIdle /\ CacheIdle /\ GreedyIdle /\ SeedIdle /\ LineIdle /\ FbIdle

\* one round of "for item in ns.history": the item is split at ":" (sys.exit
\* when that fails) and its pattern converted by strpat_to_code, whose
\* exceptions nothing catches
CliReadItem ==
    /\ pc = "cli_read"
    /\ history # << >>
    /\ LET item == Head(history)
           r    == strpat_to_code(item.pat)
       IN  IF item.colons # 1
           THEN /\ exit_msg' = "Bad history token"
                /\ pc' = "exited"
                /\ UNCHANGED <<history, constraints, raised>>
           ELSE IF r.err # "none"
           THEN /\ raised' = r.err
                /\ pc' = "raised"
                /\ UNCHANGED <<history, constraints, exit_msg>>
           ELSE /\ constraints' = Append(constraints,
                                     [guess |-> UpperWord(item.guess), code |-> r.code])
                /\ history' = Tail(history)
                /\ UNCHANGED <<pc, raised, exit_msg>>
    /\ UNCHANGED <<C, ROW_CACHE, banned_letters, printed>>
    /\ UNCHANGED <<encVars, callVars, scoreVars, recVars, phaseVars, advVars, cacheVars,
                   greedyVars, loadVars, seedVars, lineVars, fbVars>>

\* the history has been read: main goes on to filter_candidates
CliReadDone ==
    /\ pc = "cli_read"
    /\ history = << >>
    /\ pc' = "start"
    /\ UNCHANGED <<poolVars, baseVars, extVars>>

\* the rest of main: size, the phase, recommend with the default top_n, and
\* the output
CliRank ==
    /\ pc = "filtered"
    /\ printed = << >>
    /\ size' = Len(C)
    /\ depth' = PhaseOf(Len(C)).depth
    /\ sample_k' = PhaseOf(Len(C)).sample_k
    /\ phase' = PhaseOf(Len(C)).phase
    /\ top_n' = DefaultTopN
    /\ LET d == PhaseOf(Len(C)).depth
           k == PhaseOf(Len(C)).sample_k
       IN  \E p \in EvalPools(C, k) :
           \E rs \in [Range(p) -> UNION {score_depth(g, C, d, k) : g \in Range(p)}] :
             /\ \A g \in Range(p) : rs[g] \in score_depth(g, C, d, k)
             /\ pool' = p
             /\ scored' = [g \in Range(p) |-> rs[g].sc]
             /\ top' = Recommended(p, [g \in Range(p) |-> rs[g].sc], DefaultTopN)
             /\ ROW_CACHE' = CacheAfter(ROW_CACHE, UNION {rs[g].rows : g \in Range(p)})
             /\ printed' = <<"Pool size", "Phase", "Top suggestions">>
                              \o [i \in 1..Len(Recommended(p, [g \in Range(p) |-> rs[g].sc],
                                                           DefaultTopN)) |-> "suggestion"]
    /\ pc' = "cli_done"
    /\ UNCHANGED <<C, raised, guess_idx, history, exit_msg>>
    /\ UNCHANGED <<encVars, inVars, scoreVars, advVars, cacheVars, greedyVars, loadVars, seedVars, lineVars, fbVars>>

NextCli == CliReadItem \/ CliReadDone \/ Filter \/ CliRank

SpecCli == InitCli /\ [][NextCli]_vars

\* C13: an input error (a malformed history item, a pattern of the wrong
\* length or with a foreign character, a played guess that is not in the word
\* list) never ends the process: main neither exits nor dies of an exception.
C13_InputErrorNotFatal ==
    /\ pc # "exited"
    /\ pc # "raised"

\* C14: when the constraints leave the pool empty, the run reports that no
\* candidates remain and ends without computing or printing a ranking.
C14_EmptyPoolTerminal ==
    (pc = "cli_done" /\ C = << >>) =>
        /\ \E i \in 1..Len(printed) : printed[i] = "No candidates remain"
        /\ \A i \in 1..Len(printed) : printed[i] # "Top suggestions"
        /\ top = None

(* ------------- greedy solver: DontWordleState and its filter ----------- *)

\* str.lower() on one character
Lower(c) ==
    IF \E i \in 1..Len(UpperCase) : UpperCase[i] = c
    THEN LowerCase[CHOOSE i \in 1..Len(UpperCase) : UpperCase[i] = c]
    ELSE c

\* DontWordleState.__init__: green_letters is a dict, kept as the list of its
\* (position, letter) items in insertion order; the other three are sets
NewState ==
    [green_letters |-> << >>, yellow_constraints |-> {}, yellow_letters |-> {},
     gray_letters |-> {}]

\* add_green: self.green_letters[position] = letter; a position already held
\* keeps its place in the dict and gets the new letter
add_green(st, position, letter) ==
    LET gl == st.green_letters
    IN  IF \E i \in 1..Len(gl) : gl[i][1] = position
        THEN [st EXCEPT !.green_letters =
                 [i \in 1..Len(gl) |-> IF gl[i][1] = position THEN <<position, letter>>
                                       ELSE gl[i]]]
        ELSE [st EXCEPT !.green_letters = Append(gl, <<position, letter>>)]

\* add_yellow
add_yellow(st, letter, wrong_position) ==
    [st EXCEPT !.yellow_letters = @ \cup {letter},
               !.yellow_constraints = @ \cup {<<letter, wrong_position>>}]

\* add_gray
add_gray(st, letter) == [st EXCEPT !.gray_letters = @ \cup {letter}]

\* word[pos] exists (pos counts from 0)
HasPos(w, pos) == pos + 1 \in DOMAIN w

\* the loop over green_letters.items() from item i on: "False" at the first
\* mismatch, "IndexError" at a position outside the word, else "pass"
RECURSIVE GreenScan(_, _, _)
GreenScan(gl, w, i) ==
    IF i > Len(gl) THEN "pass"
    ELSE IF ~HasPos(w, gl[i][1]) THEN "IndexError"
    ELSE IF w[gl[i][1] + 1] # gl[i][2] THEN "False"
    ELSE GreenScan(gl, w, i + 1)

\* must contain all yellow letters
YellowLettersOk(st, w) == \A letter \in st.yellow_letters : In(letter, w)

\* the yellow constraints whose position lies outside the word
BadYellow(st, w) == {yc \in st.yellow_constraints : ~HasPos(w, yc[2])}

\* some yellow constraint inside the word finds its letter at the wrong position
YellowHit(st, w) ==
    \E yc \in st.yellow_constraints : HasPos(w, yc[2]) /\ w[yc[2] + 1] = yc[1]

\* a gray loop without the exemption of yellow letters
GrayHitNoYellow(st, w) ==
    \E letter \in st.gray_letters :
        LET green_positions ==
                {st.green_letters[i][1] : i \in {k \in 1..Len(st.green_letters) :
                                                    st.green_letters[k][2] = letter}}
        IN  \E pos \in 0..(Len(w) - 1) :
                /\ w[pos + 1] = letter
                /\ pos \notin green_positions

\* the gray loop: a gray letter of the word outside its green positions that
\* is not a yellow letter
GrayHit(st, w) ==
    \E letter \in st.gray_letters :
        LET green_positions ==
                {st.green_letters[i][1] : i \in {k \in 1..Len(st.green_letters) :
                                                    st.green_letters[k][2] = letter}}
        IN  \E pos \in 0..(Len(w) - 1) :
                /\ w[pos + 1] = letter
                /\ pos \notin green_positions
                /\ letter \notin st.yellow_letters

\* the word reaches the loop over yellow_constraints
ReachesYellow(st, w) == GreenScan(st.green_letters, w, 1) = "pass" /\ YellowLettersOk(st, w)

\* is_valid_word for a state whose positions all lie inside the word
is_valid_word(st, w) ==
    /\ ReachesYellow(st, w)
    /\ ~YellowHit(st, w)
    /\ ~GrayHit(st, w)

\* a filter that goes through the whole word list again, not through ws
FilterRebuilding(ws, st) ==
    {[err |-> "none", list |-> SelectSeq([i \in 1..N |-> LowerWord(WORDS[i])],
                                         LAMBDA w : is_valid_word(st, w))]}

\* filter_valid_words(ws, st): the list returned, or IndexError. A position
\* outside the word raises for the first word that reaches it. The set
\* yellow_constraints is iterated in an order that differs from run to run:
\* a word that reaches it raises when a position outside the word comes
\* first, and returns False when a hit inside the word comes first.
filter_valid_words(ws, st) ==
    LET raiseG == \E i \in 1..Len(ws) : GreenScan(st.green_letters, ws[i], 1) = "IndexError"
        W      == {i \in 1..Len(ws) : ReachesYellow(st, ws[i])}
        badY   == \E i \in W : BadYellow(st, ws[i]) # {}
    IN  IF raiseG THEN {[err |-> "IndexError", list |-> << >>]}
        ELSE IF badY
        THEN {[err |-> "IndexError", list |-> << >>]}
                 \cup (IF \A i \in W : YellowHit(st, ws[i])
                       THEN {[err |-> "none", list |-> << >>]} ELSE {})
        ELSE {[err |-> "none", list |-> SelectSeq(ws, LAMBDA w : is_valid_word(st, w))]}

(* ------------------ greedy solver: parsing and scoring ----------------- *)

DigitChars == <<"0", "1", "2", "3", "4", "5", "6", "7", "8", "9">>

\* int(c) for one character accepts a digit
IsDigit(c) == \E i \in 1..Len(DigitChars) : DigitChars[i] = c
IntOf(c) == (CHOOSE i \in 1..Len(DigitChars) : DigitChars[i] = c) - 1

\* str.isalpha() on one character
IsAlpha(c) == \E i \in 1..Len(LowerCase) : LowerCase[i] = c \/ UpperCase[i] = c

\* parse_constraints on the parts of constraint_str.split(','): parts shorter
\* than 3 are skipped, int(part[1]) raises ValueError on a non-digit
RECURSIVE parse_constraints(_)
parse_constraints(parts) ==
    IF parts = << >> THEN [err |-> "none", constraints |-> << >>]
    ELSE LET part == Head(parts)
             rest == parse_constraints(Tail(parts))
         IN  IF Len(part) < 3 THEN rest
             ELSE IF ~IsDigit(part[2]) THEN [err |-> "ValueError", constraints |-> << >>]
             ELSE IF rest.err # "none" THEN rest
             ELSE [err |-> "none",
                   constraints |-> <<<<Lower(part[1]), IntOf(part[2]), Lower(part[3])>>>>
                                       \o rest.constraints]

\* main: the loop over the parsed constraints, 'g' adds a green and 'y' a
\* yellow, any other type adds nothing
RECURSIVE AddConstraints(_, _)
AddConstraints(st, cs) ==
    IF cs = << >> THEN st
    ELSE LET c  == Head(cs)
             s1 == IF c[1] = "g" THEN add_green(st, c[2], c[3])
                   ELSE IF c[1] = "y" THEN add_yellow(st, c[3], c[2])
                   ELSE st
         IN  AddConstraints(s1, Tail(cs))

\* main: the loop over gray_input.lower(), letters only
RECURSIVE AddGrays(_, _)
AddGrays(st, gray_input) ==
    IF gray_input = << >> THEN st
    ELSE AddGrays(IF IsAlpha(Head(gray_input)) THEN add_gray(st, Lower(Head(gray_input)))
                  ELSE st,
                  Tail(gray_input))

\* a score that checks every letter of the guess, green and yellow ones too
TotalRemainingAllLetters(valid_words, st, g) ==
    Cardinality({i \in 1..Len(valid_words) :
                    \A k \in DOMAIN g : ~In(g[k], valid_words[i])})

\* find_best_guesses: total_remaining of a guess, the targets of valid_words
\* that hold none of the letters of the guess that are neither green nor
\* yellow (with no green and no yellow letter, none of its letters at all)
total_remaining(valid_words, st, g) ==
    LET greens  == {st.green_letters[i][2] : i \in 1..Len(st.green_letters)}
        yellows == st.yellow_letters
    IN  Cardinality({i \in 1..Len(valid_words) :
                        \A k \in DOMAIN g :
                            (g[k] \notin greens /\ g[k] \notin yellows)
                                => ~In(g[k], valid_words[i])})

\* guess_scores.sort(key=lambda x: x[1], reverse=True): a stable sort, pairs
\* of equal score keep their order
RECURSIVE SortDescStable(_)
SortDescStable(gs) ==
    IF gs = << >> THEN << >>
    ELSE LET i == CHOOSE k \in 1..Len(gs) :
                     /\ \A j \in 1..Len(gs) : gs[j][2] <= gs[k][2]
                     /\ \A j \in 1..(k - 1) : gs[j][2] < gs[k][2]
         IN  <<gs[i]>> \o SortDescStable(SubSeq(gs, 1, i - 1) \o SubSeq(gs, i + 1, Len(gs)))

\* find_best_guesses(valid_words, st, num_top)
find_best_guesses(valid_words, st, num_top) ==
    LET guess_scores == [i \in 1..Len(valid_words) |->
                            <<valid_words[i], total_remaining(valid_words, st, valid_words[i])>>]
        sorted       == SortDescStable(guess_scores)
    IN  SubSeq(sorted, 1, IF num_top < Len(sorted) THEN num_top ELSE Len(sorted))

(* --------------------- greedy solver: the loop of main ----------------- *)

\* most rounds of the loop in a run
MaxRounds == 2

\* num_top of the call in main
NumTop == 30

\* lines typed at "Green/Yellow constraints:", split at ','
ConstraintLineInputs ==
    {<< >>,
     <<<<"g", "0", "s">>>>,
     <<<<"G", "0", "C">>>>,
     <<<<"y", "1", "a">>, <<"g", "4", "e">>>>,
     <<<<"y", "4", "e">>>>,
     <<<<"x", "2", "c">>, <<"y", "a">>>>,
     <<<<"g", "x", "a">>>>,
     <<<<"y", "7", "e">>>>,
     <<<<"g", "5", "e">>>>}

\* lines typed at "Gray letters:"
GrayLineInputs == {<< >>, <<"t">>, <<"S", "d">>, <<"p", "1">>}

InitGreedy ==
    /\ WORDS = LoadWords(AllWordsTxt)
    /\ pc = "g_loop"
    /\ valid_guesses = [i \in 1..N |-> LowerWord(WORDS[i])]
    /\ state = NewState
    /\ best_guesses = None
    /\ rounds = 0
    /\ n_top = 0
    /\ printed = << >>
    /\ history = None /\ exit_msg = None
    /\ EncIdle /\ SolverIdle /\ RankIdle /\ PhaseIdle /\ AdvIdle /\ CacheIdle /\ SeedIdle /\ LineIdle /\ FbIdle

\* the first half of a round: both lines are read, the constraints parsed
\* and added to state, then the gray letters
GreedyRead ==
    /\ pc = "g_loop"
    /\ rounds < MaxRounds
    /\ rounds' = rounds + 1
    /\ \E constraint_input \in ConstraintLineInputs, gray_input \in GrayLineInputs :
         LET r == parse_constraints(constraint_input)
         IN  IF r.err # "none"
             THEN /\ raised' = r.err
                  /\ pc' = "raised"
                  /\ UNCHANGED state
             ELSE /\ state' = AddGrays(AddConstraints(state, r.constraints), gray_input)
                  /\ pc' = "g_read"
                  /\ UNCHANGED raised
    /\ UNCHANGED <<valid_guesses, best_guesses, n_top, printed, history, exit_msg, C, ROW_CACHE>>
    /\ UNCHANGED <<baseVars, cacheVars, loadVars, seedVars, lineVars, fbVars>>

\* valid_guesses = filter_valid_words(valid_guesses, state), and the two
\* tests that end the loop
GreedyFilter ==
    /\ pc = "g_read"
    /\ \E r \in filter_valid_words(valid_guesses, state) :
         IF r.err # "none"
         THEN /\ raised' = r.err
              /\ pc' = "raised"
              /\ UNCHANGED <<valid_guesses, printed>>
         ELSE /\ valid_guesses' = r.list
              /\ UNCHANGED raised
              /\ IF Len(r.list) = 0
                 THEN printed' = Append(printed, "No valid guesses remaining!") /\ pc' = "g_over"
                 ELSE IF Len(r.list) <= 1
                 THEN printed' = Append(printed, "Game should be over") /\ pc' = "g_over"
                 ELSE printed' = printed /\ pc' = "g_filtered"
    /\ UNCHANGED <<state, best_guesses, n_top, rounds, history, exit_msg, C, ROW_CACHE>>
    /\ UNCHANGED <<baseVars, cacheVars, loadVars, seedVars, lineVars, fbVars>>

\* best_guesses = find_best_guesses(valid_guesses, state, 30), printed
GreedyBest ==
    /\ pc = "g_filtered"
    /\ n_top' = NumTop
    /\ best_guesses' = find_best_guesses(valid_guesses, state, NumTop)
    /\ printed' = Append(printed, "BEST GUESSES")
    /\ pc' = "g_loop"
    /\ UNCHANGED <<valid_guesses, state, rounds, history, exit_msg>>
    /\ UNCHANGED <<poolVars, baseVars, cacheVars, loadVars, seedVars, lineVars, fbVars>>

NextGreedy == GreedyRead \/ GreedyFilter \/ GreedyBest

SpecGreedy == InitGreedy /\ [][NextGreedy]_vars

(* ----------------------- greedy solver: properties --------------------- *)

\* every word of a is a word of b, and the words of a keep the order of b
SubList(a, b) ==
    /\ \A i \in 1..Len(a) : \E j \in 1..Len(b) : b[j] = a[i]
    /\ \A i, j \in 1..Len(a) :
         i < j => \E k, m \in 1..Len(b) : k < m /\ b[k] = a[i] /\ b[m] = a[j]

\* the positions that hold a green letter
GreenPositions(st) == {st.green_letters[i][1] : i \in 1..Len(st.green_letters)}

\* C15: the pool starts as the full word list; in every round the pool after
\* the round is a sub-list of the pool before it, so a removed word never
\* reappears and the pool never grows; no green position, yellow letter,
\* yellow constraint or gray letter ever leaves the state.
C15_PoolNeverGrows ==
    /\ (valid_guesses # None /\ rounds = 0) =>
           valid_guesses = [i \in 1..N |-> LowerWord(WORDS[i])]
    /\ [][valid_guesses # None =>
            /\ SubList(valid_guesses', valid_guesses)
            /\ Len(valid_guesses') <= Len(valid_guesses)
            /\ GreenPositions(state) \subseteq GreenPositions(state')
            /\ state.yellow_letters \subseteq state'.yellow_letters
            /\ state.yellow_constraints \subseteq state'.yellow_constraints
            /\ state.gray_letters \subseteq state'.gray_letters]_vars

\* a second round has shrunk the pool that the first round had shrunk
C15_Witness ==
    /\ pc = "g_filtered"
    /\ rounds = 2
    /\ best_guesses # None
    /\ Len(valid_guesses) < Len(best_guesses)
    /\ Len(best_guesses) < N

(* ------------- the end-to-end scenario of filter_candidates ------------ *)

\* the code of a match at position 0 and absent letters at positions 1-4
MatchFirstOnly == 2 * POW3[1]

\* the pair played in the scenario
ScenarioPair == [guess |-> CRANE, code |-> MatchFirstOnly]

\* the pairs handed in on the scenario list: the codes a word of the list
\* produces, the all-absent code, the scenario pair and an unknown guess
ScenarioInputs ==
    {p \in Played : p.code \in PlayedCodes(INDEX(p.guess))}
        \cup {ScenarioPair, [guess |-> ZZZZZ, code |-> 0]}

ScenarioHistories == UNION {[1..k -> ScenarioInputs] : k \in 0..MaxRankHist}

\* the module loaded on the scenario's word list
InitScenario ==
    /\ WORDS = LoadWords(ScenarioTxt)
    /\ pc = "start"
    /\ constraints \in ScenarioHistories
    /\ banned_letters \in BannedInputs
    /\ C = None
    /\ raised = "none"
    /\ ROW_CACHE = << >>
    /\ EncIdle /\ RankIdle /\ PhaseIdle /\ AdvIdle /\ ExtIdle

NextScenario == Filter

SpecScenario == InitScenario /\ [][NextScenario]_vars

\* the words of the pool
PoolWords == {WORDS[C[i]] : i \in DOMAIN C}

\* the filter has run on the scenario: the single constraint, nothing banned
ScenarioFiltered ==
    /\ pc = "filtered"
    /\ constraints = <<ScenarioPair>>
    /\ banned_letters = << >>

\* C16 as stated: in the scenario (list CRANE, SLATE, TRACE, GRADE, PLATE;
\* CRANE played with a match at position 0 and absent at 1-4) the pool
\* filter_candidates returns is {CRANE} only
C16_ScenarioKeepsCrane ==
    ScenarioFiltered => PoolWords = {CRANE}

\* C16 amended: in the scenario the pool is exactly the words of the list
\* starting with "C" that hold none of the letters R, A, N, E, which on this
\* list is the empty pool; CRANE is not kept
C16_ScenarioPool ==
    ScenarioFiltered =>
        /\ PoolWords = {w \in Range(WORDS) :
                           /\ w[1] = "C"
                           /\ \A x \in {"R", "A", "N", "E"} : ~In(x, w)}
        /\ C = << >>
        /\ CRANE \notin PoolWords

C16_Witness ==
    /\ ScenarioFiltered
    /\ WORDS = ScenarioTxt
    /\ C = << >>
    /\ encode_pattern(CRANE, CRANE) # MatchFirstOnly

(* ------------------ two runs of recommend on one seed ------------------ *)

\* values of --seed
SeedInputs == {0, 7}

\* a word list on which one guess leaves three words in one branch
SeedTxt == <<CRANE, ERASE, SLATE, TRACE, GRADE>>

\* the pool filtered, and rng = random.Random(ns.seed) for the runs to come
InitSeed ==
    /\ WORDS = LoadWords(SeedTxt)
    /\ pc = "start"
    /\ constraints \in Histories(MaxRankHist)
    /\ banned_letters \in BannedInputs
    /\ C = None
    /\ raised = "none"
    /\ ROW_CACHE = << >>
    /\ EncIdle /\ RankIdle /\ PhaseIdle /\ AdvIdle
    /\ CacheIdle /\ CliIdle /\ GreedyIdle
    /\ seed \in SeedInputs
    /\ first_top = None
    /\ LineIdle /\ FbIdle

\* recommend(C, depth, sample_k, top_n, rng) evaluating the pool p: the
\* scores come from score_depth, whose samples the global random module draws
RecommendOn(p) ==
    \E rs \in [Range(p) -> UNION {score_depth(g, C, depth', sample_k') : g \in Range(p)}] :
        /\ \A g \in Range(p) : rs[g] \in score_depth(g, C, depth', sample_k')
        /\ pool' = p
        /\ scored' = [g \in Range(p) |-> rs[g].sc]
        /\ top' = Recommended(p, [g \in Range(p) |-> rs[g].sc], top_n')
        /\ ROW_CACHE' = CacheAfter(ROW_CACHE, UNION {rs[g].rows : g \in Range(p)})

\* the first run: rng.sample draws the evaluated pool, which the seed fixes
FirstRunCall(d, k, n) ==
    /\ pc = "filtered"
    /\ depth' = d
    /\ sample_k' = k
    /\ top_n' = n
    /\ \E p \in EvalPools(C, k) : RecommendOn(p)
    /\ first_top' = top'
    /\ pc' = "ran_once"
    /\ UNCHANGED <<C, raised, guess_idx, seed>>
    /\ UNCHANGED <<encVars, inVars, scoreVars, phaseVars, advVars,
                 cacheVars, cliVars, greedyVars, loadVars, lineVars, fbVars>>

FirstRun ==
    \E d \in {1, 2}, k \in SampleInputs, n \in {TopFew, DefaultTopN} : FirstRunCall(d, k, n)

\* the second run, same arguments and a random.Random built from the same
\* seed: rng.sample draws the same evaluated pool again
SecondRun ==
    /\ pc = "ran_once"
    /\ UNCHANGED <<depth, sample_k, top_n>>
    /\ RecommendOn(pool)
    /\ pc' = "ran_twice"
    /\ UNCHANGED <<C, raised, guess_idx, seed, first_top>>
    /\ UNCHANGED <<encVars, inVars, scoreVars, phaseVars, advVars,
                 cacheVars, cliVars, greedyVars, loadVars, lineVars, fbVars>>

NextSeed == Filter \/ FirstRun \/ SecondRun

SpecSeed == InitSeed /\ [][NextSeed]_vars

\* C17: two runs of recommend with the same word list, pool, depth, sample_k,
\* top_n and seed return the identical ordered list of (word, score), for
\* depth 1 and 2 and for sample_k None or a number
C17_SameSeedSameRanking ==
    pc = "ran_twice" => top = first_top

(* ------------------ score_depth on the branching list ------------------ *)

NextScore == Filter \/ ScoreDepth

\* score_depth called on the pool left of the list SeedTxt
SpecScore == InitSeed /\ [][NextScore]_vars

\* the words of the pool given the code c by the guess g
Branch(g, c) == {s \in Range(C) : pattern_row(g)[s] = c}

\* |B| * exp_size_one(h, B) for a set B of words: the number of pairs of B
\* the guess h gives one code
PairsAlike(h, B) ==
    Cardinality({st \in B \X B : pattern_row(h)[st[1]] = pattern_row(h)[st[2]]})

\* the largest of a non-empty set of numbers
MaxOf(S) == CHOOSE x \in S : \A y \in S : y <= x

RECURSIVE SumOf(_, _)
SumOf(f, S) ==
    IF S = {} THEN 0
    ELSE LET x == CHOOSE y \in S : TRUE IN f[x] + SumOf(f, S \ {x})

\* C18: for a non-empty pool, score_depth(g, C, 2, k) is (sum over the
\* branches B of C under g of |B| * best(B)) / |C|, best(B) being the largest
\* exp_size_one(h, B) over the h of B, or over a sample of k words of B when
\* k is set and |B| > k; with depth 1 it is exp_size_one(g, C)
C18_DepthTwoScore ==
    (pc = "scored" /\ C # << >>) =>
        LET keys    == {pattern_row(guess_idx)[s] : s \in Range(C)}
            sampled == {c \in keys : sample_k # 0
                                      /\ Cardinality(Branch(guess_idx, c)) > sample_k}
            draws   == {S \in SUBSET Range(C) : Cardinality(S) = sample_k}
        IN  /\ sc.err = "none"
            /\ depth = 1 =>
                  sc.num * Len(C) = sc.den * PairsAlike(guess_idx, Range(C))
            /\ depth = 2 =>
                  \E drawn \in [sampled -> draws] :
                      /\ \A c \in sampled : drawn[c] \subseteq Branch(guess_idx, c)
                      /\ LET second(c) == IF c \in sampled THEN drawn[c]
                                          ELSE Branch(guess_idx, c)
                             best == [c \in keys |->
                                         MaxOf({PairsAlike(h, Branch(guess_idx, c)) :
                                                   h \in second(c)})]
                         IN  sc.num * Len(C) = sc.den * SumOf(best, keys)

\* a depth-2 score has been computed from a sample of a branch, and differs
\* from the score the whole branch gives
C18_Witness ==
    /\ pc = "scored"
    /\ depth = 2
    /\ sample_k # 0
    /\ \E c \in DOMAIN groups : Len(groups[c]) > sample_k
    /\ \A r \in score_depth(guess_idx, C, 2, 0) : r.sc # sc

(* ------------------ find_best_guesses with any num_top ----------------- *)

\* find_best_guesses(valid_guesses, state, n) on the pool of a round
FindBestCall(n) ==
    /\ pc = "g_filtered"
    /\ n_top' = n
    /\ best_guesses' = find_best_guesses(valid_guesses, state, n)
    /\ printed' = Append(printed, "BEST GUESSES")
    /\ pc' = "g_loop"
    /\ UNCHANGED <<valid_guesses, state, rounds, history, exit_msg>>
    /\ UNCHANGED <<poolVars, baseVars, cacheVars, loadVars, seedVars, lineVars, fbVars>>

FindBest == \E n \in {TopFew, NumTop} : FindBestCall(n)

NextBest == GreedyRead \/ GreedyFilter \/ FindBest

SpecBest == InitGreedy /\ [][NextBest]_vars

\* find_best_guesses has just returned
BestReturned == pc = "g_loop" /\ best_guesses # None

\* the letters the state holds as green or yellow
KnownLetters(st) ==
    {st.green_letters[i][2] : i \in 1..Len(st.green_letters)} \cup st.yellow_letters

\* the pool words that hold none of the letters of the guess g outside known
Misses(g, known) ==
    Cardinality({i \in 1..Len(valid_guesses) :
                    \A x \in Range(g) \ known : ~In(x, valid_guesses[i])})

\* best_guesses holds the n_top pool words of highest score under the
\* scoring Misses(_, known), in descending order of score
TopByMisses(known) ==
    /\ Len(best_guesses) = IF n_top < Len(valid_guesses) THEN n_top
                           ELSE Len(valid_guesses)
    /\ \A j \in 1..Len(best_guesses) :
          /\ \E i \in 1..Len(valid_guesses) : valid_guesses[i] = best_guesses[j][1]
          /\ best_guesses[j][2] = Misses(best_guesses[j][1], known)
    /\ \A j, k \in 1..Len(best_guesses) :
          j < k => /\ best_guesses[j][2] >= best_guesses[k][2]
                   /\ best_guesses[j][1] # best_guesses[k][1]
    /\ \A i \in 1..Len(valid_guesses) :
          (\A j \in 1..Len(best_guesses) : best_guesses[j][1] # valid_guesses[i])
              => \A j \in 1..Len(best_guesses) :
                     Misses(valid_guesses[i], known) <= best_guesses[j][2]

MaxParts == 2

\* parts a line may hold: well-formed triples, a position past the word, a
\* part that is no digit at its start, a short part, an empty part and a
\* part whose third character is neither "+" nor "-"
PartInputs ==
    {<<"0", "c", "+">>, <<"0", "c", "-">>, <<"0", "s", "-">>, <<"4", "e", "+">>,
     <<"4", "e", "-">>, <<"2", "a", "+">>, <<"5", "e", "+">>, <<"x", "a", "+">>,
     <<"0", "a">>, << >>, <<"0", "c", "x">>}

\* lines typed at "Position constraints": input_str.split(','), << >> for ""
PositionLineInputs == UNION {[1..k -> PartInputs] : k \in 0..MaxParts}

\* constraints[key] = val on a dict, which keeps its keys in insertion order
DictSet(d, key, val) ==
    IF \E i \in 1..Len(d) : d[i][1] = key
    THEN [i \in 1..Len(d) |-> IF d[i][1] = key THEN <<key, val>> ELSE d[i]]
    ELSE Append(d, <<key, val>>)

\* the loop of parse_position_constraints; a ValueError or IndexError ends it
\* with the message printed and {} returned. Key p stands for position p - 1.
RECURSIVE ParsePositionLoop(_, _)
ParsePositionLoop(parts, d) ==
    IF parts = << >> THEN [err |-> "none", dict |-> d]
    ELSE LET part == Head(parts)
         IN  IF Len(part) < 1 \/ ~IsDigit(part[1]) \/ Len(part) < 3
             THEN [err |-> "Invalid format", dict |-> << >>]
             ELSE ParsePositionLoop(Tail(parts),
                      DictSet(d, IntOf(part[1]) + 1, <<part[2], part[3] = "+">>))

\* parse_position_constraints(input_str)
parse_position_constraints(parts) ==
    IF parts = << >> THEN [err |-> "none", dict |-> << >>]
    ELSE ParsePositionLoop(parts, << >>)

\* the dict as a function from its keys
AsDict(d) ==
    [p \in {d[i][1] : i \in 1..Len(d)} |->
        (CHOOSE v \in {d[i] : i \in 1..Len(d)} : v[1] = p)[2]]

\* the loop of filter_by_position_constraints over the items for one word:
\* "keep", "drop", or the IndexError of word[pos] past the end of the word
RECURSIVE MatchItems(_, _)
MatchItems(word, d) ==
    IF d = << >> THEN "keep"
    ELSE LET p       == Head(d)[1]
             letter  == Head(d)[2][1]
             must_be == Head(d)[2][2]
         IN  IF p > Len(word) THEN "IndexError"
             ELSE IF (must_be /\ word[p] # letter) \/ (~must_be /\ word[p] = letter)
                  THEN "drop"
                  ELSE MatchItems(word, Tail(d))

\* filter_by_position_constraints on the parsed dict
FilterParsed(ws, d) ==
    IF \A i \in 1..Len(d) : d[i][1] <= L
    THEN [err |-> "none", list |-> filter_by_position_constraints(ws, AsDict(d))]
    ELSE IF \E i \in 1..Len(ws) : MatchItems(ws[i], d) = "IndexError"
         THEN [err |-> "IndexError", list |-> << >>]
         ELSE [err |-> "none", list |-> SelectSeq(ws, LAMBDA w : MatchItems(w, d) = "keep")]

InitPos ==
    /\ WORDS = LoadWords(AllWordsTxt)
    /\ pc = "pos_loop"
    /\ words \in ShuffledInputs
    /\ required_set = None
    /\ banned_set = None
    /\ exact_counts_dict = None
    /\ min_counts_dict = None
    /\ position_dict = None
    /\ filtered_words = None
    /\ positions = None
    /\ EncIdle /\ SolverIdle /\ RankIdle /\ PhaseIdle
    /\ CacheIdle /\ GreedyIdle /\ SeedIdle /\ FbIdle
    /\ history = None /\ exit_msg = None /\ printed = << >>

\* positions = get_user_input(...); position_dict = parse_position_constraints(positions)
PosRead ==
    /\ pc = "pos_loop"
    /\ \E line \in PositionLineInputs :
         LET r == parse_position_constraints(line)
         IN  /\ positions' = line
             /\ position_dict' = r.dict
             /\ printed' = IF r.err = "none" THEN << >> ELSE <<r.err>>
    /\ pc' = "pos_read"
    /\ UNCHANGED <<words, required_set, banned_set, exact_counts_dict, min_counts_dict,
                   filtered_words, history, exit_msg>>
    /\ UNCHANGED <<encVars, inVars, poolVars, callVars, scoreVars, recVars, phaseVars,
                   cacheVars, greedyVars, loadVars, seedVars, fbVars>>

\* filtered_words = words; if position_dict: filtered_words =
\* filter_by_position_constraints(filtered_words, position_dict)
PosFilter ==
    /\ pc = "pos_read"
    /\ LET r == IF position_dict = << >> THEN [err |-> "none", list |-> words]
                ELSE FilterParsed(words, position_dict)
       IN  /\ filtered_words' = r.list
           /\ raised' = r.err
           /\ pc' = IF r.err = "none" THEN "pos_filtered" ELSE "raised"
    /\ UNCHANGED <<words, required_set, banned_set, exact_counts_dict, min_counts_dict,
                   position_dict, positions, C, ROW_CACHE>>
    /\ UNCHANGED <<encVars, inVars, callVars, scoreVars, recVars, phaseVars,
                   cacheVars, cliVars, greedyVars, loadVars, seedVars, fbVars>>

\* the rest of the round: filtered_words is sorted by (score_word, word) and
\* printed, and the loop starts over
PosPresent ==
    /\ pc = "pos_filtered"
    /\ filtered_words' = SortedPairs({<<score_word(w), w>> : w \in Range(filtered_words)})
    /\ position_dict' = None
    /\ positions' = None
    /\ printed' = << >>
    /\ pc' = "pos_loop"
    /\ UNCHANGED <<words, required_set, banned_set, exact_counts_dict, min_counts_dict,
                   history, exit_msg>>
    /\ UNCHANGED <<encVars, inVars, poolVars, callVars, scoreVars, recVars, phaseVars,
                   cacheVars, greedyVars, loadVars, seedVars, fbVars>>

NextPos == PosRead \/ PosFilter \/ PosPresent

SpecPos == InitPos /\ [][NextPos]_vars

\* the line was accepted and every part of it is a (position, letter,
\* polarity) triple with polarity "+" or "-"
AcceptedTriples ==
    /\ positions # << >>
    /\ printed = << >>
    /\ \A i \in 1..Len(positions) : positions[i][3] \in {"+", "-"}

\* the triple written as part holds of the word w
TripleHolds(part, w) ==
    LET p == IntOf(part[1]) + 1
    IN  /\ p <= Len(w)
        /\ part[3] = "+" => w[p] = part[2]
        /\ part[3] = "-" => w[p] # part[2]

\* C20: for every accepted line of position constraints,
\* filter_by_position_constraints on the parsed result keeps a word iff
\* every triple written in the line holds of it, also when several triples
\* name one position
C20_EveryTripleFilters ==
    (pc = "pos_filtered" /\ AcceptedTriples) =>
        \A i \in 1..Len(words) :
            (\E j \in 1..Len(filtered_words) : filtered_words[j] = words[i])
                <=> \A k \in 1..Len(positions) : TripleHolds(positions[k], words[i])

(* ------------- perfect solver: the feedback of a guess ----------------- *)

\* target_counts = Counter(target), on the letters of both words: a Counter
\* gives 0 for a letter it does not hold
CounterOf(g, t) == [x \in Range(g) \cup Range(t) |-> Count(x, t)]

\* first pass: feedback[i] = 'g' where the words agree, and the count of the
\* letter goes down by one for each such position
GreenPass(g, t) ==
    [fb     |-> [i \in Pos |-> IF g[i] = t[i] THEN "g" ELSE "b"],
     counts |-> [x \in Range(g) \cup Range(t) |->
                    Count(x, t) - Cardinality({i \in Pos : g[i] = t[i] /\ g[i] = x})]]

\* a second pass that marks a yellow without taking it off the count
RECURSIVE YellowPassKeepingCount(_, _, _, _)
YellowPassKeepingCount(g, fb, counts, i) ==
    IF i > L THEN fb
    ELSE IF fb[i] = "b" /\ counts[g[i]] > 0
         THEN YellowPassKeepingCount(g, [fb EXCEPT ![i] = "y"], counts, i + 1)
         ELSE YellowPassKeepingCount(g, fb, counts, i + 1)

\* second pass: a grey position whose letter has a count left becomes 'y' and
\* takes one off the count; positions i..L still to visit
RECURSIVE YellowPass(_, _, _, _)
YellowPass(g, fb, counts, i) ==
    IF i > L THEN fb
    ELSE IF fb[i] = "b" /\ counts[g[i]] > 0
         THEN YellowPass(g, [fb EXCEPT ![i] = "y"],
                         [counts EXCEPT ![g[i]] = counts[g[i]] - 1], i + 1)
         ELSE YellowPass(g, fb, counts, i + 1)

\* get_wordle_feedback(guess, target): the string of g, y, b, or ValueError
get_wordle_feedback(g, t) ==
    IF Len(g) # L \/ Len(t) # L THEN [err |-> "ValueError", fb |-> << >>]
    ELSE LET gp == GreenPass(g, t)
         IN  [err |-> "none", fb |-> YellowPass(g, gp.fb, gp.counts, 1)]

\* get_wordle_feedback(guess, sol), called after encode_pattern(guess, sol)
GetFeedback ==
    /\ pc = "enc_done"
    /\ LET r == get_wordle_feedback(guess, sol)
       IN  /\ feedback' = r.fb
           /\ raised' = r.err
           /\ pc' = IF r.err = "none" THEN "fb_done" ELSE "raised"
    /\ UNCHANGED <<C, ROW_CACHE, answer>>
    /\ UNCHANGED <<encVars, inVars, callVars, scoreVars, recVars, phaseVars, advVars,
                   cacheVars, cliVars, greedyVars, loadVars, seedVars, lineVars>>

NextFeedback == Encode \/ GetFeedback

\* both feedback functions called on one pair of words
SpecFeedback == InitEnc /\ [][NextFeedback]_vars

\* b -> 0, y -> 1, g -> 2
DigitOfChar(c) == IF c = "g" THEN 2 ELSE IF c = "y" THEN 1 ELSE 0

\* C21: for every guess and target of length 5, digit i of
\* encode_pattern(guess, target) is the image of character i of
\* get_wordle_feedback(guess, target) under b -> 0, y -> 1, g -> 2, repeated
\* letters included
C21_FeedbacksAgree ==
    pc = "fb_done" =>
        /\ Len(feedback) = L
        /\ \A i \in Pos :
              /\ feedback[i] \in {"b", "y", "g"}
              /\ (code \div POW3[i]) % 3 = DigitOfChar(feedback[i])

\* both functions have run on a guess that repeats two letters: one is
\* yellow at its first place and grey at its second, the other grey at its
\* first place and green at its second
C21_Witness ==
    /\ pc = "fb_done"
    /\ \E i, j \in Pos :
          i < j /\ guess[i] = guess[j] /\ feedback[i] = "y" /\ feedback[j] = "b"
    /\ \E i, j \in Pos :
          i < j /\ guess[i] = guess[j] /\ feedback[i] = "b" /\ feedback[j] = "g"

(* --------- greedy solver: a game played against a fixed answer --------- *)

\* the two word files of the greedy solver: the whole bank, in lower case
BankTxt == [i \in 1..Len(WordBank) |-> LowerWord(WordBank[i])]

\* the line typed at "Green/Yellow constraints:" for the feedback fb of the
\* guess g: g<position><letter> for a match, y<position><letter> for a
\* letter present elsewhere, in the order of the positions
TypedConstraints(g, fb) ==
    LET marked == SelectSeq([i \in 1..Len(g) |-> i], LAMBDA i : fb[i] # "b")
    IN  [k \in 1..Len(marked) |-> <<fb[marked[k]], DigitChars[marked[k]], g[marked[k]]>>]

\* the line typed at "Gray letters:": the letters of the absent positions
TypedGrays(g, fb) ==
    LET absent == SelectSeq([i \in 1..Len(g) |-> i], LAMBDA i : fb[i] = "b")
    IN  [k \in 1..Len(absent) |-> g[absent[k]]]

\* the words of both files, lower case as read
all_words == [i \in 1..N |-> LowerWord(WORDS[i])]

InitAnswer ==
    /\ WORDS = LoadWords(BankTxt)
    /\ pc = "g_loop"
    /\ answer \in Range(all_words)
    /\ feedback = None
    /\ valid_guesses = all_words
    /\ state = NewState
    /\ best_guesses = None
    /\ rounds = 0
    /\ n_top = 0
    /\ printed = << >>
    /\ history = None /\ exit_msg = None
    /\ EncIdle /\ SolverIdle /\ RankIdle /\ PhaseIdle /\ AdvIdle /\ CacheIdle /\ SeedIdle /\ LineIdle

\* the first half of a round when the player has played the word w and types
\* the feedback the game has shown for it
PlayGuess(w) ==
    /\ pc = "g_loop"
    /\ rounds < MaxRounds
    /\ rounds' = rounds + 1
    /\ guess' = w
    /\ LET fb == get_wordle_feedback(w, answer).fb
           r  == parse_constraints(TypedConstraints(w, fb))
       IN  /\ feedback' = fb
           /\ IF r.err # "none"
              THEN /\ raised' = r.err
                   /\ pc' = "raised"
                   /\ UNCHANGED state
              ELSE /\ state' = AddGrays(AddConstraints(state, r.constraints),
                                        TypedGrays(w, fb))
                   /\ pc' = "g_read"
                   /\ UNCHANGED raised
    /\ UNCHANGED <<valid_guesses, best_guesses, n_top, printed, history, exit_msg, C,
                   ROW_CACHE, answer>>
    /\ UNCHANGED <<sol, res, code, pat, pat_code>>
    /\ UNCHANGED <<inVars, callVars, scoreVars, recVars, phaseVars, advVars,
                   cacheVars, loadVars, seedVars, lineVars>>

Play == \E i \in 1..N : PlayGuess(all_words[i])

NextAnswer == Play \/ GreedyFilter \/ GreedyBest

SpecAnswer == InitAnswer /\ [][NextAnswer]_vars

\* C22: when the state is built from the true feedback of each guess against
\* the answer, is_valid_word(answer) is True after every guess, and the
\* answer stays in the pool, also when a guess repeats a letter that is
\* partly green or yellow and partly gray
C22_AnswerNeverEliminated ==
    /\ pc # "raised"
    /\ is_valid_word(state, answer)
    /\ pc # "g_read" => \E i \in 1..Len(valid_guesses) : valid_guesses[i] = answer

\* two guesses have been played and the pool filtered; the last guess
\* repeats a letter that is yellow at one place and gray at another, and the
\* state holds a letter that is both green and gray
C22_Witness ==
    /\ pc = "g_filtered"
    /\ rounds >= 2
    /\ guess # answer
    /\ \E i, j \in 1..Len(guess) :
          /\ guess[i] = guess[j]
          /\ feedback[i] = "y"
          /\ feedback[j] = "b"
          /\ guess[i] \in state.gray_letters
          /\ guess[i] \in state.yellow_letters
    /\ \E k \in 1..Len(state.green_letters) :
          state.green_letters[k][2] \in state.gray_letters
    /\ \E i \in 1..Len(valid_guesses) : valid_guesses[i] = answer

====
